---- MODULE Spec2Model ----
(***************************************************************************)
(* Model of streamlit_app.py: calculate_splits, split_stl_into_grid and    *)
(* the try/except/finally of the "Split STL" button handler.               *)
(*                                                                         *)
(* Lengths are exact rationals over an integer grid of millimetres; the    *)
(* IEEE rounding of numpy's float64 arithmetic is not modelled.  A Python  *)
(* None is the empty sequence, a supplied value v is <<v>>.  A fragment    *)
(* file "<stem>_splt-NN.stl" is identified by its part number NN, and the  *)
(* disk maps each written file to the grid cell whose section it holds.    *)
(***************************************************************************)
EXTENDS Integers, Sequences, FiniteSets

\* ---------------------------------------------------------------- bounds
MaxSplit == 3
MaxChunk == 2
MaxSize  == 3
MaxCells == 6

\* ------------------------------------------------------------- optionals
None == << >>

Some(v) == << v >>

Val(o) == o[1]

\* ------------------------------------------------------------- rationals
Rat(n, d) == [n |-> n, d |-> d]

RatLE(a, b) == a.n * b.d <= b.n * a.d

RatEq(a, b) == a.n * b.d = b.n * a.d

RatSub(a, b) == Rat(a.n * b.d - b.n * a.d, a.d * b.d)

\* np.ceil of the quotient n / d, d > 0
Ceil(n, d) == -((-n) \div d)

\* ------------------------------------------------------ calculate_splits
Raise(e) == [err |-> e]

Return(v) == [val |-> v]

Raised(r) == "err" \in DOMAIN r

\* wrong ceiling: truncates the quotient
calculate_splits_floor(model_size, max_size) ==
    IF max_size = None \/ Val(max_size) <= 0
    THEN Raise("InvalidChunkSize")
    ELSE Return(model_size \div Val(max_size))

\* wrong ceiling: quotient plus one
calculate_splits_plus1(model_size, max_size) ==
    IF max_size = None \/ Val(max_size) <= 0
    THEN Raise("InvalidChunkSize")
    ELSE Return((model_size \div Val(max_size)) + 1)

\* wrong guard: < 0 lets a zero size through to the division
calculate_splits_nonneg(model_size, max_size) ==
    IF max_size = None \/ Val(max_size) < 0
    THEN Raise("InvalidChunkSize")
    ELSE IF Val(max_size) = 0
         THEN Raise("OverflowError")
         ELSE Return(Ceil(model_size, Val(max_size)))

calculate_splits(model_size, max_size) ==
    IF max_size = None \/ Val(max_size) <= 0
    THEN Raise("InvalidChunkSize")
    ELSE Return(Ceil(model_size, Val(max_size)))

\* ------------------------------------------------------- split planning
\* max(1, s or 1) without the max
ClampSplit_nomax(s) ==
    IF s = None \/ Val(s) = 0 THEN 1 ELSE Val(s)

\* max(1, xsplit or 1)
ClampSplit(s) ==
    LET v == IF s = None \/ Val(s) = 0 THEN 1 ELSE Val(s)
    IN  IF v >= 1 THEN v ELSE 1

\* the split count before clamping: explicit, derived or None
DerivedSplit(split, max, model_size) ==
    IF split = None /\ max # None
    THEN LET r == calculate_splits(model_size, max)
         IN  IF Raised(r) THEN r ELSE Return(Some(r.val))
    ELSE Return(split)

\* np.linspace with endpoint=False
linspace_noendpoint(start, stop, num) ==
    [k \in 1..num |-> Rat(start * num + (k - 1) * (stop - start), num)]

\* np.linspace(start, stop, num): start + k * step, the last sample set to stop
linspace(start, stop, num) ==
    LET div == num - 1
    IN  [k \in 1..num |->
            IF k = num /\ num > 1
            THEN Rat(stop, 1)
            ELSE IF div > 0
                 THEN Rat(start * div + (k - 1) * (stop - start), div)
                 ELSE Rat(start, 1)]

\* rotation by pi about the X axis: (x, y, z) -> (x, -y, -z)
Flipped(b) ==
    [xmin |-> b.xmin, xmax |-> b.xmax,
     ymin |-> -b.ymax, ymax |-> -b.ymin,
     zmin |-> -b.zmax, zmax |-> -b.zmin]

\* ----------------------------------------------------------- cell scan
\* the Y loop as the outer one
NextCell_youter(i, j, xs, ys) ==
    IF i + 1 < xs THEN << i + 1, j >>
    ELSE IF j + 1 < ys THEN << 0, j + 1 >> ELSE << xs, 0 >>

\* for i in range(xsplit): for j in range(ysplit)
NextCell(i, j, xs, ys) ==
    IF j + 1 < ys THEN << i, j + 1 >> ELSE << i + 1, 0 >>

\* range(xsplit - 1)
ScanDone_short(i, xs) == i >= xs - 1

\* range(xsplit) exhausted
ScanDone(i, xs) == i >= xs

\* the counter advancing on every cell
NextPartNumber_always(pn, outcome) == pn + 1

\* part_number after a cell: advanced only when a fragment was emitted
NextPartNumber(pn, outcome) ==
    IF outcome = "solid" THEN pn + 1 ELSE pn

\* ----------------------------------------------------------------- state
VARIABLES
    caller,        \* "handler" (the Streamlit page) or "direct" (a plain call)
    input,         \* the arguments xsplit, ysplit, max_x, max_y, flip
    file,          \* the input STL: whether it decodes, and its bounds
    pc,            \* position in split_stl_into_grid
    mesh,          \* the loaded mesh (its bounds), None before the load
    bounds,        \* mesh.bounds as measured, None before
    xsplit, ysplit,
    segment_size,  \* <<segment_size_x, segment_size_y>>, None before
    temp_dir,      \* whether mkdtemp has run
    x_extent, y_extent,
    i, j,
    part_number,
    output_files,
    disk,          \* fragment files present: part number -> cell
    ncalls,        \* number of mesh.intersection calls made
    geom,          \* the geometry operations performed so far
    error,         \* the exception raised, None if none
    hpc,           \* position in the button handler
    result,        \* the handler's name `result`: None while unbound
    temp_input     \* whether the uploaded copy still exists

vars == << caller, input, file, pc, mesh, bounds, xsplit, ysplit, segment_size,
           temp_dir, x_extent, y_extent, i, j, part_number, output_files, disk,
           ncalls, geom, error, hpc, result, temp_input >>

planVars == << xsplit, ysplit, segment_size, temp_dir, x_extent, y_extent >>

scanVars == << i, j, part_number, output_files, disk, ncalls >>

handlerVars == << hpc, result, temp_input >>

inputVars == << caller, input, file >>

\* ---------------------------------------------------------------- inputs
OptSplit == {None} \cup {Some(k) : k \in -1..MaxSplit}

OptMax == {None} \cup {Some(m) : m \in -1..MaxChunk}

\* arguments of a plain call for one axis: at most one driver, or both
\* supplied (a count of 1 or 2 next to any chunk size)
AxisArgs ==
    {<< s, None >> : s \in OptSplit} \cup {<< None, m >> : m \in OptMax}
        \cup {<< Some(k), m >> : k \in 1..2, m \in OptMax}

DirectInputs ==
    {[xsplit |-> ax[1], max_x |-> ax[2], ysplit |-> ay[1], max_y |-> ay[2],
      flip |-> f] : ax \in AxisArgs, ay \in AxisArgs, f \in BOOLEAN}

\* the page's widgets: "Divisions" (min_value=1) or "Chunk Size" (min_value=1.0)
HandlerInputs ==
    {[xsplit |-> Some(x), max_x |-> None, ysplit |-> Some(y), max_y |-> None,
      flip |-> f] : x \in 1..MaxSplit, y \in 1..MaxSplit, f \in BOOLEAN}
    \cup
    {[xsplit |-> None, max_x |-> Some(x), ysplit |-> None, max_y |-> Some(y),
      flip |-> f] : x \in 1..MaxChunk, y \in 1..MaxChunk, f \in BOOLEAN}

\* bounding boxes of the meshes tried: min <= max on every axis
Boxes ==
    {[xmin |-> -1, xmax |-> -1 + sx, ymin |-> 1, ymax |-> 1 + sy,
      zmin |-> 2, zmax |-> 3] : sx \in 0..MaxSize, sy \in 0..MaxSize}

Files ==
    {[valid |-> TRUE, bounds |-> b] : b \in Boxes}
        \cup {[valid |-> FALSE, bounds |-> CHOOSE b \in Boxes : TRUE]}

model_size_x(b) == b.xmax - b.xmin

model_size_y(b) == b.ymax - b.ymin

\* the grid an invocation will plan, for bounding the scan
PlannedSplit(split, max, model_size) ==
    LET r == DerivedSplit(split, max, model_size)
    IN  IF Raised(r) THEN 1 ELSE ClampSplit(r.val)

PlannedCells(in, f) ==
    LET b == IF in.flip THEN Flipped(f.bounds) ELSE f.bounds
    IN  PlannedSplit(in.xsplit, in.max_x, model_size_x(b))
            * PlannedSplit(in.ysplit, in.max_y, model_size_y(b))

Init ==
    /\ caller \in {"handler", "direct"}
    /\ input \in IF caller = "handler" THEN HandlerInputs ELSE DirectInputs
    /\ file \in Files
    /\ PlannedCells(input, file) <= MaxCells
    /\ pc = "load"
    /\ mesh = None
    /\ bounds = None
    /\ xsplit = input.xsplit
    /\ ysplit = input.ysplit
    /\ segment_size = None
    /\ temp_dir = FALSE
    /\ x_extent = None
    /\ y_extent = None
    /\ i = 0
    /\ j = 0
    /\ part_number = 1
    /\ output_files = << >>
    /\ disk = << >>
    /\ ncalls = 0
    /\ geom = {}
    /\ error = None
    /\ hpc = IF caller = "handler" THEN "try" ELSE "none"
    /\ result = None
    /\ temp_input = TRUE

\* ---------------------------------------------------- split_stl_into_grid
\* mesh = trimesh.load(input_stl); not a Trimesh -> ValueError
LoadMesh ==
    /\ pc = "load"
    /\ geom' = geom \cup {"load"}
    /\ IF file.valid
       THEN mesh' = Some(file.bounds) /\ pc' = "flip" /\ error' = error
       ELSE mesh' = mesh /\ pc' = "raised" /\ error' = Some("InvalidMesh")
    /\ UNCHANGED << inputVars, bounds, planVars, scanVars, handlerVars >>

\* if flip: mesh.apply_transform(rotation by pi about X)
ApplyFlip ==
    /\ pc = "flip"
    /\ IF input.flip
       THEN mesh' = Some(Flipped(Val(mesh))) /\ geom' = geom \cup {"flip"}
       ELSE mesh' = mesh /\ geom' = geom
    /\ pc' = "measure"
    /\ UNCHANGED << inputVars, bounds, planVars, scanVars, error, handlerVars >>

\* bounds = mesh.bounds and the three model sizes
Measure ==
    /\ pc = "measure"
    /\ bounds' = mesh
    /\ geom' = geom \cup {"bounds"}
    /\ pc' = "derive"
    /\ UNCHANGED << inputVars, mesh, planVars, scanVars, error, handlerVars >>

\* the temporary directory created before the split counts are derived
DeriveSplits_mkdtemp_first ==
    /\ pc = "derive"
    /\ temp_dir' = TRUE
    /\ LET rx == DerivedSplit(xsplit, input.max_x, model_size_x(Val(bounds)))
           ry == DerivedSplit(ysplit, input.max_y, model_size_y(Val(bounds)))
       IN  IF Raised(rx) \/ Raised(ry)
           THEN /\ error' = Some(IF Raised(rx) THEN rx.err ELSE ry.err)
                /\ pc' = "raised"
                /\ UNCHANGED << xsplit, ysplit >>
           ELSE /\ xsplit' = rx.val
                /\ ysplit' = ry.val
                /\ pc' = "clamp"
                /\ error' = error
    /\ UNCHANGED << inputVars, mesh, bounds, geom, segment_size, x_extent,
                    y_extent, scanVars, handlerVars >>

\* xsplit / ysplit from calculate_splits when only a chunk size is given
DeriveSplits ==
    /\ pc = "derive"
    /\ LET rx == DerivedSplit(xsplit, input.max_x, model_size_x(Val(bounds)))
           ry == DerivedSplit(ysplit, input.max_y, model_size_y(Val(bounds)))
       IN  IF Raised(rx) \/ Raised(ry)
           THEN /\ error' = Some(IF Raised(rx) THEN rx.err ELSE ry.err)
                /\ pc' = "raised"
                /\ UNCHANGED << xsplit, ysplit >>
           ELSE /\ xsplit' = rx.val
                /\ ysplit' = ry.val
                /\ pc' = "clamp"
                /\ error' = error
    /\ UNCHANGED << inputVars, mesh, bounds, geom, segment_size, temp_dir,
                    x_extent, y_extent, scanVars, handlerVars >>

\* xsplit = max(1, xsplit or 1); ysplit = max(1, ysplit or 1)
ClampSplits ==
    /\ pc = "clamp"
    /\ xsplit' = Some(ClampSplit(xsplit))
    /\ ysplit' = Some(ClampSplit(ysplit))
    /\ pc' = "prepare"
    /\ UNCHANGED << inputVars, mesh, bounds, geom, segment_size, temp_dir,
                    x_extent, y_extent, scanVars, error, handlerVars >>

\* segment sizes, mkdtemp, the extents, and the scan's initial values
PrepareGrid ==
    /\ pc = "prepare"
    /\ LET b == Val(bounds)
       IN  /\ segment_size' = Some(<< Rat(model_size_x(b), Val(xsplit)),
                                     Rat(model_size_y(b), Val(ysplit)) >>)
           /\ x_extent' = Some(linspace(b.xmin, b.xmax, Val(xsplit) + 1))
           /\ y_extent' = Some(linspace(b.ymin, b.ymax, Val(ysplit) + 1))
    /\ temp_dir' = TRUE
    /\ output_files' = << >>
    /\ part_number' = 1
    /\ i' = 0
    /\ j' = 0
    /\ pc' = "scan"
    /\ UNCHANGED << inputVars, mesh, bounds, geom, xsplit, ysplit, disk, ncalls,
                    error, handlerVars >>

\* one cell: intersection, the empty test, export, append, count
ScanCell ==
    /\ pc = "scan"
    /\ ~ScanDone(i, Val(xsplit))
    /\ ncalls' = ncalls + 1
    /\ geom' = geom \cup {"intersection"}
    /\ \E outcome \in {"empty", "solid", "intersection_fails", "export_fails"} :
         /\ part_number' = NextPartNumber(part_number, outcome)
         /\ CASE outcome = "empty" ->
                   /\ UNCHANGED << output_files, disk, error >>
                   /\ pc' = "scan"
              [] outcome = "solid" ->
                   /\ disk' = [p \in DOMAIN disk \cup {part_number} |->
                                  IF p = part_number THEN << i, j >> ELSE disk[p]]
                   /\ output_files' = Append(output_files, part_number)
                   /\ pc' = "scan"
                   /\ error' = error
              [] outcome = "intersection_fails" ->
                   /\ error' = Some("IntersectionFailure")
                   /\ pc' = "raised"
                   /\ UNCHANGED << output_files, disk >>
              [] outcome = "export_fails" ->
                   /\ error' = Some("ExportFailure")
                   /\ pc' = "raised"
                   /\ output_files' = output_files
                   /\ \E partial \in BOOLEAN :
                        disk' = IF partial
                                THEN [p \in DOMAIN disk \cup {part_number} |->
                                        IF p = part_number THEN << i, j >>
                                        ELSE disk[p]]
                                ELSE disk
         /\ IF pc' = "scan"
            THEN LET c == NextCell(i, j, Val(xsplit), Val(ysplit))
                 IN  i' = c[1] /\ j' = c[2]
            ELSE UNCHANGED << i, j >>
    /\ UNCHANGED << inputVars, mesh, bounds, planVars, handlerVars >>

\* the loops are exhausted: return the report
ReturnResult ==
    /\ pc = "scan"
    /\ ScanDone(i, Val(xsplit))
    /\ pc' = "returned"
    /\ UNCHANGED << inputVars, mesh, bounds, geom, planVars, scanVars, error,
                    handlerVars >>

\* ------------------------------------------------------ the button handler
\* result = split_stl_into_grid(...) returned; the page shows and zips the files
HandlerSuccess ==
    /\ hpc = "try"
    /\ pc = "returned"
    /\ \A f \in 1..Len(output_files) : output_files[f] \in DOMAIN disk
    /\ result' = Some([splits |-> << Val(xsplit), Val(ysplit) >>,
                       segment_size |-> Val(segment_size),
                       output_files |-> output_files])
    /\ hpc' = "finally"
    /\ UNCHANGED << inputVars, pc, mesh, bounds, geom, planVars, scanVars, error,
                    temp_input >>

\* except Exception as e: st.error(...)
HandlerExcept ==
    /\ hpc = "try"
    /\ pc = "raised"
    /\ hpc' = "finally"
    /\ UNCHANGED << inputVars, pc, mesh, bounds, geom, planVars, scanVars, error,
                    result, temp_input >>

\* finally: unlink the upload, then every file of result['output_files'];
\* with `result` unbound the lookup raises NameError and nothing is unlinked
HandlerFinally ==
    /\ hpc = "finally"
    /\ temp_input' = FALSE
    /\ IF result = None
       THEN /\ hpc' = "crashed"
            /\ error' = Some("NameError")
            /\ disk' = disk
       ELSE /\ hpc' = "end"
            /\ error' = error
            /\ disk' = [p \in DOMAIN disk \
                              {Val(result).output_files[k] :
                                  k \in 1..Len(Val(result).output_files)} |->
                           disk[p]]
    /\ UNCHANGED << inputVars, pc, mesh, bounds, geom, planVars, i, j,
                    part_number, output_files, ncalls, result >>

Next ==
    \/ LoadMesh
    \/ ApplyFlip
    \/ Measure
    \/ DeriveSplits
    \/ ClampSplits
    \/ PrepareGrid
    \/ ScanCell
    \/ ReturnResult
    \/ HandlerSuccess
    \/ HandlerExcept
    \/ HandlerFinally

Spec == Init /\ [][Next]_vars

\* ------------------------------------------------------------ properties
\* k is the ceiling of size / max: the least integer with k * max >= size
IsCeil(k, size, max) == (k - 1) * max < size /\ size <= k * max

LexLess(c1, c2) == c1[1] < c2[1] \/ (c1[1] = c2[1] /\ c1[2] < c2[2])

\* C1: the part indices of the emitted fragments are 1, 2, ..., n in emission
\* order and the counter is always n + 1: it starts at 1 and moves only when a
\* fragment is emitted, so an empty cell consumes no index.
C1_PartsSequential ==
    /\ \A k \in 1..Len(output_files) : output_files[k] = k
    /\ part_number = Len(output_files) + 1
    /\ Len(output_files) <= ncalls

\* a 3x1 grid whose middle cell was empty returned parts 1 and 2
C1_Witness ==
    /\ pc = "returned"
    /\ xsplit = Some(3) /\ ysplit = Some(1)
    /\ output_files = << 1, 2 >>
    /\ DOMAIN disk = {1, 2}
    /\ disk[1] = << 0, 0 >> /\ disk[2] = << 2, 0 >>

ExplicitMode ==
    /\ input.max_x = None /\ input.max_y = None
    /\ input.xsplit # None /\ input.ysplit # None
    /\ Val(input.xsplit) >= 1 /\ Val(input.ysplit) >= 1

\* C2: a completed invocation with explicit xsplit = X, ysplit = Y and no chunk
\* sizes has made exactly X*Y intersection calls and returns at most X*Y
\* fragments.
C2_CellsScanned ==
    (pc = "returned" /\ ExplicitMode) =>
        /\ ncalls = Val(input.xsplit) * Val(input.ysplit)
        /\ Len(output_files) <= Val(input.xsplit) * Val(input.ysplit)

C2_Witness ==
    /\ pc = "returned"
    /\ input.xsplit = Some(3) /\ input.ysplit = Some(2)
    /\ input.max_x = None /\ input.max_y = None
    /\ ncalls = 6
    /\ Len(output_files) = 6

\* the split count of an axis was computed by calculate_splits
ChunkDriven(split, max) == split = None /\ max # None

\* C3 as stated: calculate_splits(size, max_size) is ceil(size / max_size) and
\* is >= 1 for every size >= 0, size = 0 included.
C3_Original ==
    pc = "clamp" =>
        /\ ChunkDriven(input.xsplit, input.max_x) =>
              /\ IsCeil(Val(xsplit), model_size_x(Val(bounds)), Val(input.max_x))
              /\ Val(xsplit) >= 1
        /\ ChunkDriven(input.ysplit, input.max_y) =>
              /\ IsCeil(Val(ysplit), model_size_y(Val(bounds)), Val(input.max_y))
              /\ Val(ysplit) >= 1

CeilOrZero(k, size, max) ==
    /\ IsCeil(k, size, max)
    /\ size > 0 => k >= 1
    /\ size = 0 => k = 0

\* C3 amended: for positive size and max_size the value of calculate_splits is
\* ceil(size / max_size) and is >= 1; for size = 0 it is 0, not >= 1.
C3_Amended ==
    pc = "clamp" =>
        /\ ChunkDriven(input.xsplit, input.max_x) =>
              CeilOrZero(Val(xsplit), model_size_x(Val(bounds)), Val(input.max_x))
        /\ ChunkDriven(input.ysplit, input.max_y) =>
              CeilOrZero(Val(ysplit), model_size_y(Val(bounds)), Val(input.max_y))

\* size 3 with chunk size 2: ceil(1.5) = 2
C3_Witness ==
    /\ pc = "clamp"
    /\ input.xsplit = None /\ input.max_x = Some(2)
    /\ model_size_x(Val(bounds)) = 3
    /\ xsplit = Some(2)

NonPositive(max) == max # None /\ Val(max) <= 0

\* C4 as stated: a call given a max_x or max_y <= 0 never returns a result and
\* fails with the invalid-chunk-size error, whatever the other arguments are.
C4_Original ==
    (NonPositive(input.max_x) \/ NonPositive(input.max_y)) =>
        /\ pc # "returned"
        /\ pc = "raised" => error = Some("InvalidChunkSize")

DrivenBad ==
    \/ (input.xsplit = None /\ NonPositive(input.max_x))
    \/ (input.ysplit = None /\ NonPositive(input.max_y))

\* C4 amended: once the mesh has loaded, the call fails with the
\* invalid-chunk-size error exactly when some axis has no explicit split count
\* and a supplied chunk size <= 0; it never gets past the derivation then.
C4_Amended ==
    /\ (DrivenBad /\ file.valid /\ pc \notin {"load", "flip", "measure", "derive"})
          => (pc = "raised" /\ error = Some("InvalidChunkSize"))
    /\ error = Some("InvalidChunkSize") => (DrivenBad /\ file.valid)

C4_Witness ==
    /\ pc = "raised"
    /\ error = Some("InvalidChunkSize")
    /\ input.xsplit = Some(2) /\ input.max_x = Some(0)
    /\ input.ysplit = None /\ input.max_y = Some(-1)

\* C5 as stated: with max_x = 0 the invalid-chunk-size failure comes before any
\* geometry processing (no load, flip, measurement or intersection).
C5_Original ==
    (input.max_x = Some(0) /\ error = Some("InvalidChunkSize")) => geom = {}

\* C5 amended: with max_x = 0 the invalid-chunk-size failure comes after the
\* mesh is loaded, flipped if requested and measured, and before the temporary
\* directory, any intersection and any fragment file.
C5_Amended ==
    (input.max_x = Some(0) /\ error = Some("InvalidChunkSize")) =>
        /\ geom = {"load", "bounds"} \cup (IF input.flip THEN {"flip"} ELSE {})
        /\ ncalls = 0
        /\ ~temp_dir
        /\ DOMAIN disk = {}
        /\ output_files = << >>

C5_Witness ==
    /\ input.xsplit = None /\ input.max_x = Some(0)
    /\ input.flip
    /\ error = Some("InvalidChunkSize")
    /\ geom = {"load", "flip", "bounds"}

\* C6: once the handler's finally block has run, every fragment file written
\* by the call is deleted, after a failure as after a success.
C6_FragmentsDeleted ==
    (hpc \in {"end", "crashed"} /\ Len(output_files) >= 1) =>
        \A k \in 1..Len(output_files) : output_files[k] \notin DOMAIN disk

\* C7: on a chunk-size-driven axis the cell width size / splits is never
\* larger than the requested chunk size.
C7_WidthWithinMax ==
    segment_size # None =>
        /\ ChunkDriven(input.xsplit, input.max_x) =>
              /\ Val(segment_size)[1] = Rat(model_size_x(Val(bounds)), Val(xsplit))
              /\ RatLE(Val(segment_size)[1], Rat(Val(input.max_x), 1))
        /\ ChunkDriven(input.ysplit, input.max_y) =>
              /\ Val(segment_size)[2] = Rat(model_size_y(Val(bounds)), Val(ysplit))
              /\ RatLE(Val(segment_size)[2], Rat(Val(input.max_y), 1))

\* size 3 with chunk size 2: two cells of width 3/2
C7_Witness ==
    /\ segment_size # None
    /\ input.xsplit = None /\ input.max_x = Some(2)
    /\ model_size_x(Val(bounds)) = 3
    /\ Val(segment_size)[1] = Rat(3, 2)

SplitUsed(used, split, max, size) ==
    /\ used \in Nat
    /\ used >= 1
    /\ (split # None /\ Val(split) >= 1) => used = Val(split)
    /\ (split # None /\ Val(split) <= 0) => used = 1
    /\ (split = None /\ max = None) => used = 1
    /\ (split = None /\ max # None /\ size = 0) => used = 1

\* C8: the split count used for each axis, and reported in result['splits'],
\* is an integer >= 1: an explicit count <= 0, no parameter at all and a derived
\* count of 0 all give 1, and an explicit count >= 1 is used unchanged.
C8_SplitsAtLeastOne ==
    /\ pc \in {"prepare", "scan", "returned"} =>
          /\ SplitUsed(Val(xsplit), input.xsplit, input.max_x,
                       model_size_x(Val(bounds)))
          /\ SplitUsed(Val(ysplit), input.ysplit, input.max_y,
                       model_size_y(Val(bounds)))
    /\ result # None =>
          Val(result).splits = << Val(xsplit), Val(ysplit) >>

C8_Witness ==
    /\ pc = "prepare"
    /\ input.xsplit = Some(-1) /\ xsplit = Some(1)
    /\ input.ysplit = None /\ input.max_y = Some(1)
    /\ model_size_y(Val(bounds)) = 0
    /\ ysplit = Some(1)

Tiles(extent, n, lo, hi) ==
    /\ DOMAIN extent = 1..(n + 1)
    /\ RatEq(extent[1], Rat(lo, 1))
    /\ RatEq(extent[n + 1], Rat(hi, 1))
    /\ \A k \in 1..n :
          /\ RatLE(extent[k], extent[k + 1])
          /\ RatEq(RatSub(extent[k + 1], extent[k]), Rat(hi - lo, n))

\* C9: x_extent has xsplit + 1 coordinates, is non-decreasing, starts at the
\* bounding-box min x, ends at the max x, and consecutive coordinates are
\* size_x / xsplit apart; the same for y_extent and ysplit.
C9_ExtentsTile ==
    x_extent # None =>
        /\ Tiles(Val(x_extent), Val(xsplit), Val(bounds).xmin, Val(bounds).xmax)
        /\ Tiles(Val(y_extent), Val(ysplit), Val(bounds).ymin, Val(bounds).ymax)

\* x from -1 to 2 in two cells, the flipped y from -3 to -1 in one
C9_Witness ==
    /\ x_extent # None
    /\ xsplit = Some(2) /\ ysplit = Some(1)
    /\ input.flip
    /\ Len(Val(x_extent)) = 3
    /\ RatEq(Val(x_extent)[1], Rat(-1, 1))
    /\ RatEq(Val(x_extent)[2], Rat(1, 2))
    /\ RatEq(Val(x_extent)[3], Rat(2, 1))
    /\ RatEq(Val(y_extent)[1], Rat(-3, 1))
    /\ RatEq(Val(y_extent)[2], Rat(-1, 1))

\* C10: of two emitted fragments, the one from cell (i1, j1) precedes the one
\* from (i2, j2) in output_files, and has the smaller part index, exactly when
\* i1 < i2, or i1 = i2 and j1 < j2.
C10_ScanOrder ==
    \A a, b \in 1..Len(output_files) :
        (output_files[a] \in DOMAIN disk /\ output_files[b] \in DOMAIN disk) =>
            /\ a < b <=> LexLess(disk[output_files[a]], disk[output_files[b]])
            /\ a < b <=> output_files[a] < output_files[b]

\* cell (0, 1) was emitted before cell (1, 0)
C10_Witness ==
    /\ pc = "returned"
    /\ output_files = << 1, 2 >>
    /\ DOMAIN disk = {1, 2}
    /\ disk[1] = << 0, 1 >> /\ disk[2] = << 1, 0 >>
====
